---- MODULE Spec2Model ----
(***************************************************************************)
(* Concurrent research orchestration of the Deep-Research-Agents           *)
(* repository: TemperatureManager (profile registry), ResearchExecutor     *)
(* (_prepare_agents, execute_concurrent_research, the per-agent task,      *)
(* _synthesize_results, _get_error_message), LeadResearcherAgent (the      *)
(* owner of the agent pool) and ParallelResearchPlugin (the function-call  *)
(* entry point).                                                           *)
(*                                                                         *)
(* Text is modelled as a sequence of string pieces: an f-string is the     *)
(* concatenation of its literal and interpolated pieces, and a report is   *)
(* the list synthesized_parts that the code joins with newlines.  Emoji    *)
(* of the literals are left out.  Temperatures are integers in units of    *)
(* 0.00001 (0.2 is 20000).                                                 *)
(***************************************************************************)
EXTENDS Integers, Sequences, FiniteSets, TLC

\* default target_count of _prepare_agents
TargetCount == 3

\* largest worker identity the model constructs
MaxId == 7

\* Python's None for a temperature
NoTemp == -1

\* the research queries a caller passes
Queries == {"X"}

\* the error text of a failed model call, of a failed trace read and of a
\* failed agent construction
ErrInvoke == "timeout"
ErrExtract == "bad trace"
ErrConstruct == "service unavailable"
\* str(IndexError) of a list subscript
ErrIndex == "list index out of range"
\* str(KeyError) of str.format on an indicator with an unknown placeholder
ErrFormat == "'unknown'"

Range(s) == {s[k] : k \in DOMAIN s}

Min(a, b) == IF a <= b THEN a ELSE b

\* research_agents[:n]
TakeAll(s, n) == s

Take(s, n) == SubSeq(s, 1, Min(n, Len(s)))

\* str(i) for the small integers the code formats
IntStr(i) == ToString(i)

RECURSIVE Flatten(_)
\* the concatenation of a list of lists
Flatten(lists) ==
  IF lists = <<>> THEN <<>> ELSE Head(lists) \o Flatten(Tail(lists))

\* str(t) of a temperature
TempStr(t) ==
  CASE t = NoTemp -> "None" [] t = 20000 -> "0.2" [] t = 60000 -> "0.6"
    [] t = 90000 -> "0.9" [] OTHER -> "t"

(***************************************************************************)
(* Project configuration (external collaborator).  avail: get_project_     *)
(* config is importable and does not raise; types: the temperature         *)
(* variations the YAML defines; indOk: every quality indicator formats     *)
(* with agent_count alone; tpl: the error templates are defined.           *)
(***************************************************************************)
AgentTypes == <<"conservative", "balanced", "creative">>

ConfigStates ==
  { [avail |-> FALSE, types |-> {}, indOk |-> TRUE, tpl |-> FALSE],
    [avail |-> TRUE, types |-> {"conservative", "balanced", "creative"},
     indOk |-> TRUE, tpl |-> TRUE],
    [avail |-> TRUE, types |-> {"conservative", "balanced", "creative"},
     indOk |-> FALSE, tpl |-> FALSE],
    [avail |-> TRUE, types |-> {"conservative", "creative"},
     indOk |-> TRUE, tpl |-> FALSE] }

\* str.upper() of an agent type
Upper(s) ==
  CASE s = "conservative" -> "CONSERVATIVE" [] s = "balanced" -> "BALANCED"
    [] s = "creative" -> "CREATIVE" [] OTHER -> s

\* ProjectConfig.get_agent_config of a type the YAML defines
AgentTemperatureConfig(type) ==
  CASE type = "conservative" -> [temp |-> 20000, approach |-> "cfg conservative"]
    [] type = "balanced" -> [temp |-> 60000, approach |-> "cfg balanced"]
    [] OTHER -> [temp |-> 90000, approach |-> "cfg creative"]

GetDefaultTemperatureConfigs ==
  << [temp |-> 20000, approach |-> "Conservative detailed analysis",
      agent_suffix |-> "CONSERVATIVE"],
     [temp |-> 60000, approach |-> "Balanced analysis",
      agent_suffix |-> "BALANCED"],
     [temp |-> 90000, approach |-> "Creative divergent thinking",
      agent_suffix |-> "CREATIVE"] >>

RECURSIVE CollectConfigs(_, _)
\* the loop over ['conservative', 'balanced', 'creative'] from position k
CollectConfigs(c, k) ==
  IF k > Len(AgentTypes) THEN <<>>
  ELSE LET t == AgentTypes[k]
           rest == CollectConfigs(c, k + 1)
       IN IF t \in c.types
            THEN << [temp |-> AgentTemperatureConfig(t).temp,
                     approach |-> AgentTemperatureConfig(t).approach,
                     agent_suffix |-> Upper(t)] >> \o rest
            ELSE rest

GetProjectTemperatureConfigs(c) ==
  IF ~c.avail THEN GetDefaultTemperatureConfigs
  ELSE LET configs == CollectConfigs(c, 1)
       IN IF configs # <<>> THEN configs ELSE GetDefaultTemperatureConfigs

GetTemperatureConfigs(c, use_temperature_variation) ==
  IF use_temperature_variation THEN GetProjectTemperatureConfigs(c)
  ELSE << [temp |-> NoTemp, approach |-> "Standard analysis", agent_suffix |-> "1"],
          [temp |-> NoTemp, approach |-> "Standard analysis", agent_suffix |-> "2"],
          [temp |-> NoTemp, approach |-> "Standard analysis", agent_suffix |-> "3"] >>

\* the thresholds compared with < instead of <=
GetTemperatureTypeStrict(temperature) ==
  IF temperature < 30000 THEN "conservative"
  ELSE IF temperature < 70000 THEN "balanced"
  ELSE "creative"

GetTemperatureTypeFromValue(temperature) ==
  IF temperature <= 30000 THEN "conservative"
  ELSE IF temperature <= 70000 THEN "balanced"
  ELSE "creative"

\* the prompt an agent is constructed with
GetTemperatureInstructions(temperature) == GetTemperatureTypeFromValue(temperature)

GetAgentName(suffix) == <<"RESEARCHER_", suffix>>

\* the description of an agent built without temperature
StandardDescription ==
  <<"Performs comprehensive INTERNAL DOCUMENT SEARCH ONLY using Azure AI Search and returns structured JSON results from internal repositories. NO external source access.">>

GetAgentDescription(approach, temperature) ==
  IF temperature # NoTemp
    THEN <<"Performs comprehensive INTERNAL DOCUMENT SEARCH ONLY with ", approach,
           " (temperature=", TempStr(temperature), "). NO external source access.">>
    ELSE StandardDescription

(***************************************************************************)
(* Workers.  id is the object identity; search is the identity of the      *)
(* ModularSearchPlugin instance in its plugin list; memory is the handle   *)
(* of the memory plugin in its plugin list, or "none".                     *)
(***************************************************************************)
CreateResearchAgent(config_dict, memory_plugin, id) ==
  [ id |-> id,
    name |-> GetAgentName(config_dict.agent_suffix),
    description |-> GetAgentDescription(config_dict.approach, config_dict.temp),
    instructions |-> IF config_dict.temp # NoTemp
                       THEN GetTemperatureInstructions(config_dict.temp)
                       ELSE "RESEARCHER_PROMPT",
    temp |-> config_dict.temp,
    search |-> id,
    memory |-> IF memory_plugin THEN "shared" ELSE "none" ]

\* the i-th agent (0-based) of LeadResearcherAgent.__init__
InitialResearchAgent(i, memory_plugin) ==
  [ id |-> i + 1,
    name |-> <<"RESEARCHER", IntStr(i + 1)>>,
    description |-> StandardDescription,
    instructions |-> "RESEARCHER_PROMPT",
    temp |-> NoTemp,
    search |-> i + 1,
    memory |-> IF memory_plugin THEN "shared" ELSE "none" ]

CreateInitialResearchAgents(memory_plugin) ==
  [ k \in 1..3 |-> InitialResearchAgent(k - 1, memory_plugin) ]

\* a presence check that never recognises the plugin
HasMemoryPluginNever(agent) == FALSE

HasMemoryPlugin(agent) == agent.memory # "none"

(***************************************************************************)
(* _prepare_agents.  st is the running state of one call: the list         *)
(* research_agents (mutated in place), the next fresh identity, the number *)
(* of _create_research_agent calls made so far and the error raised, if    *)
(* any.  failAt is the number of the _create_research_agent call that      *)
(* raises (0: none does).                                                  *)
(***************************************************************************)
NoErr == "none"

\* the new agent always appended, never assigned to index i
CreateIntoAppended(st, i, configs, memory_plugin, failAt, replace) ==
  IF i + 1 > Len(configs) THEN [st EXCEPT !.err = ErrIndex]
  ELSE IF st.built + 1 = failAt
    THEN [st EXCEPT !.built = st.built + 1, !.err = ErrConstruct]
  ELSE LET agent == CreateResearchAgent(configs[i + 1], memory_plugin, st.next)
       IN [st EXCEPT !.built = st.built + 1,
                     !.next = st.next + 1,
                     !.pool = Append(st.pool, agent)]

\* the new agent always built from the first configuration
CreateIntoFirstConfig(st, i, configs, memory_plugin, failAt, replace) ==
  IF i + 1 > Len(configs) THEN [st EXCEPT !.err = ErrIndex]
  ELSE IF st.built + 1 = failAt
    THEN [st EXCEPT !.built = st.built + 1, !.err = ErrConstruct]
  ELSE LET agent == CreateResearchAgent(configs[1], memory_plugin, st.next)
       IN [st EXCEPT !.built = st.built + 1,
                     !.next = st.next + 1,
                     !.pool = IF replace THEN [st.pool EXCEPT ![i + 1] = agent]
                              ELSE Append(st.pool, agent)]

\* one _create_research_agent(temperature_configs[i], memory_plugin) call
\* whose result is is appended to the list, or assigned to index i if replace
CreateInto(st, i, configs, memory_plugin, failAt, replace) ==
  IF i + 1 > Len(configs) THEN [st EXCEPT !.err = ErrIndex]
  ELSE IF st.built + 1 = failAt
    THEN [st EXCEPT !.built = st.built + 1, !.err = ErrConstruct]
  ELSE LET agent == CreateResearchAgent(configs[i + 1], memory_plugin, st.next)
       IN [st EXCEPT !.built = st.built + 1,
                     !.next = st.next + 1,
                     !.pool = IF replace THEN [st.pool EXCEPT ![i + 1] = agent]
                              ELSE Append(st.pool, agent)]

RECURSIVE AppendLoop(_, _, _, _, _, _)
\* for i in range(i, target_count): create and append
AppendLoop(st, i, target_count, configs, memory_plugin, failAt) ==
  IF i >= target_count \/ st.err # NoErr THEN st
  ELSE AppendLoop(CreateInto(st, i, configs, memory_plugin, failAt, FALSE),
                  i + 1, target_count, configs, memory_plugin, failAt)

RECURSIVE RepairLoop(_, _, _, _, _, _)
\* for i, agent in enumerate(research_agents[:target_count]): recreate the
\* agents that lack the memory plugin
RepairLoop(st, i, target_count, configs, memory_plugin, failAt) ==
  IF i >= target_count \/ st.err # NoErr THEN st
  ELSE RepairLoop(IF ~HasMemoryPlugin(st.pool[i + 1])
                    THEN CreateInto(st, i, configs, memory_plugin, failAt, TRUE)
                    ELSE st,
                  i + 1, target_count, configs, memory_plugin, failAt)

\* Variation mode rebuilding the pool on every call
VariationAlwaysRecreate(research_agents, target_count) == TRUE

VariationRecreateUnlessBound(research_agents, target_count) ==
  \/ Len(research_agents) # target_count
  \/ \E k \in DOMAIN research_agents : research_agents[k].temp = NoTemp

\* the condition under which Variation mode rebuilds the pool
VariationMustRecreate(research_agents, target_count) ==
  Len(research_agents) # target_count

PrepareAgents(research_agents, use_temperature_variation, memory_plugin, target_count, c, next, failAt) ==
  LET configs == GetTemperatureConfigs(c, use_temperature_variation)
      st0 == [pool |-> research_agents, next |-> next, built |-> 0, err |-> NoErr]
      st == IF use_temperature_variation
              THEN IF VariationMustRecreate(research_agents, target_count)
                     THEN AppendLoop([st0 EXCEPT !.pool = <<>>], 0, target_count,
                                     configs, memory_plugin, failAt)
                     ELSE st0
            ELSE IF Len(research_agents) >= target_count
              THEN IF memory_plugin
                     THEN RepairLoop(st0, 0, target_count, configs,
                                     memory_plugin, failAt)
                     ELSE st0
            ELSE AppendLoop(st0, Len(research_agents), target_count, configs,
                            memory_plugin, failAt)
  IN [ pool |-> st.pool, next |-> st.next, built |-> st.built, err |-> st.err,
       agents |-> IF st.err = NoErr THEN Take(st.pool, target_count) ELSE <<>> ]

(***************************************************************************)
(* One worker turn.  An outcome is what the agent runtime does with the    *)
(* turn: get_response raises, or it returns a response with or without a   *)
(* thread; messages are the thread's messages that get_messages yields     *)
(* (before it raises, if readRaises), content is response.content ("" for  *)
(* none).  A message has a content ("" for none) and items; an item is a   *)
(* function call, a function result or something else.  The arguments of a *)
(* call and the result of a function are texts, kept as lists of           *)
(* characters.                                                             *)
(***************************************************************************)
Message(content, items) == [content |-> content, items |-> items]

\* an item with function_name and arguments
FunctionCall(function_name, arguments, id) ==
  [kind |-> "call", function_name |-> function_name, arguments |-> arguments,
   result |-> <<>>, id |-> id]

\* an item with function_name and result, and no arguments
FunctionResult(function_name, result, id) ==
  [kind |-> "result", function_name |-> function_name, arguments |-> <<>>,
   result |-> result, id |-> id]

\* an item that is neither, such as a text item
OtherItem ==
  [kind |-> "other", function_name |-> "", arguments |-> <<>>, result |-> <<>>,
   id |-> ""]

Outcome(invokeRaises, thread, messages, readRaises, content, contentRaises) ==
  [ invokeRaises |-> invokeRaises, thread |-> thread, messages |-> messages,
    readRaises |-> readRaises, content |-> content,
    contentRaises |-> contentRaises ]

\* get_response raises
OutRaise == Outcome(TRUE, FALSE, <<>>, FALSE, "", FALSE)
\* a response without a thread that carries content
OutContent == Outcome(FALSE, FALSE, <<>>, FALSE, "A", FALSE)
\* a response whose thread holds one message with content
OutThread == Outcome(FALSE, TRUE, <<Message("B", <<>>)>>, FALSE, "", FALSE)
\* reading the thread raises and so does reading response.content
OutBadTrace == Outcome(FALSE, TRUE, <<>>, TRUE, "C", TRUE)
\* a response with a thread that has not been read yet
OutPending == Outcome(FALSE, TRUE, <<>>, FALSE, "", FALSE)

\* what get_response can do, and what reading the thread can then find
InvokeOutcomes == {OutRaise, OutContent, OutPending}

ThreadOutcomes == {OutThread, OutBadTrace}

NoOutcome == Outcome(FALSE, FALSE, <<>>, FALSE, "", FALSE)

\* str(tool_call['arguments'])[:100]
ArgumentsPreview == 100

IsCall(item) == item.kind = "call"

IsResult(item) == item.kind = "result"

\* the items of all messages, in order
ItemsOf(messages) ==
  Flatten([k \in DOMAIN messages |-> messages[k].items])

\* what the loop over get_messages appends for one item
ItemParts(item) ==
  IF IsResult(item)
    THEN <<"\n[Function Result from ", item.function_name, "]\n">>
         \o item.result \o <<"\n">>
    ELSE <<>>

\* what the loop over get_messages appends for one message
MessageParts(message) ==
  (IF message.content # "" THEN <<message.content>> ELSE <<>>)
  \o Flatten([k \in DOMAIN message.items |-> ItemParts(message.items[k])])

\* "  ID: ..." if the item has an id
IdLine(item) == IF item.id # "" THEN <<"  ID: ", item.id, "\n">> ELSE <<>>

ToolCallLines(tool_call) ==
  <<"- Function: ", tool_call.function_name, "\n", "  Arguments: ">>
  \o Take(tool_call.arguments, ArgumentsPreview) \o <<"...\n">>
  \o IdLine(tool_call)

ToolResultLines(tool_result) ==
  <<"- Function: ", tool_result.function_name, "\n", "  Result length: ",
    IntStr(Len(tool_result.result)), " chars\n">>
  \o IdLine(tool_result)

\* the summary of the function calls, if there are any
ToolInfo(tool_calls) ==
  IF tool_calls = <<>> THEN <<>>
  ELSE <<"\n[Tool Calls Executed: ", IntStr(Len(tool_calls)), " functions]\n">>
       \o Flatten([k \in DOMAIN tool_calls |-> ToolCallLines(tool_calls[k])])

\* the summary of the function results, if there are any
ToolResultInfo(tool_results) ==
  IF tool_results = <<>> THEN <<>>
  ELSE <<"\n[Tool Results: ", IntStr(Len(tool_results)), " results received]\n">>
       \o Flatten([k \in DOMAIN tool_results |-> ToolResultLines(tool_results[k])])

\* complete_content_parts when the loop over get_messages ends or raises
ThreadParts(messages) ==
  Flatten([k \in DOMAIN messages |-> MessageParts(messages[k])])

\* _process_agent_response: the final content, or the error that escapes
ProcessAgentResponse(agent, response) ==
  IF response.thread
    THEN IF response.readRaises
           THEN IF response.content # ""
                  THEN IF response.contentRaises
                         THEN [err |-> ErrExtract, final_content |-> <<>>]
                         ELSE [err |-> NoErr,
                               final_content |-> ThreadParts(response.messages)
                                                 \o <<response.content>>]
                  ELSE [err |-> NoErr,
                        final_content |-> ThreadParts(response.messages)]
           ELSE [err |-> NoErr,
                 final_content |->
                   ThreadParts(response.messages)
                   \o ToolInfo(SelectSeq(ItemsOf(response.messages), IsCall))
                   \o ToolResultInfo(SelectSeq(ItemsOf(response.messages), IsResult))]
  ELSE IF response.content # ""
    THEN IF response.contentRaises
           THEN [err |-> ErrExtract, final_content |-> <<>>]
           ELSE [err |-> NoErr, final_content |-> <<response.content>>]
  ELSE [err |-> NoErr,
        final_content |-> <<"No content generated by ">> \o agent.name]

\* the except branch of _run_single_agent_with_thread
ErrorResult(agent, e) == <<"ERROR in ">> \o agent.name \o <<": ", e>>

\* what a task hands to asyncio.gather(return_exceptions=True): the string
\* it returned, or the exception it raised
Returned(text) == [exc |-> FALSE, text |-> text]

Raised(e) == [exc |-> TRUE, text |-> <<e>>]

NoResult == [exc |-> FALSE, text |-> <<>>]

\* the task returning the final content as it is, empty or not
RunSingleAgentNoPlaceholder(agent, outcome) ==
  IF outcome.invokeRaises THEN Returned(ErrorResult(agent, ErrInvoke))
  ELSE LET p == ProcessAgentResponse(agent, outcome)
       IN IF p.err # NoErr THEN Returned(ErrorResult(agent, p.err))
          ELSE Returned(p.final_content)

\* the task without its except clause: the error leaves the task
RunSingleAgentUncaught(agent, outcome) ==
  IF outcome.invokeRaises THEN Raised(ErrInvoke)
  ELSE LET p == ProcessAgentResponse(agent, outcome)
       IN IF p.err # NoErr THEN Raised(p.err)
          ELSE IF p.final_content # <<>> THEN Returned(p.final_content)
          ELSE Returned(<<"No content generated by ">> \o agent.name)

\* _run_single_agent_with_thread: every Exception of the turn is caught
\* and returned as a string
RunSingleAgentWithThread(agent, outcome) ==
  IF outcome.invokeRaises THEN Returned(ErrorResult(agent, ErrInvoke))
  ELSE LET p == ProcessAgentResponse(agent, outcome)
       IN IF p.err # NoErr THEN Returned(ErrorResult(agent, p.err))
          ELSE IF p.final_content # <<>> THEN Returned(p.final_content)
          ELSE Returned(<<"No content generated by ">> \o agent.name)

(***************************************************************************)
(* _synthesize_results.  The report is the list synthesized_parts.         *)
(***************************************************************************)
\* str(agent_result) if agent_result else "No content generated"
ResultText(agent_result) ==
  IF agent_result.text = <<>> THEN <<"No content generated">>
  ELSE agent_result.text

\* every section labelled as the first
StandardHeaderFirst(i) ==
  <<"## Research Perspective ", IntStr(1), " - RESEARCHER", IntStr(1)>>

StandardHeader(i) ==
  <<"## Research Perspective ", IntStr(i), " - RESEARCHER", IntStr(i)>>

VariationHeader(temp_config) ==
  <<"### Temperature ", TempStr(temp_config.temp), " - ", temp_config.approach>>

\* the parts one agent result adds (i is 1-based)
SectionParts(agent_result, temp_config, i, use_temperature_variation) ==
  IF agent_result.exc
    THEN IF use_temperature_variation
           THEN << VariationHeader(temp_config),
                   <<"**Error**: ">> \o agent_result.text >>
           ELSE << StandardHeader(i), <<"Error: ">> \o agent_result.text >>
  ELSE IF use_temperature_variation
    THEN << VariationHeader(temp_config),
            <<"**Approach**: ", temp_config.approach>>,
            <<"**Research Results**:">>,
            ResultText(agent_result),
            <<>> >>
  ELSE << StandardHeader(i), ResultText(agent_result) >>

RECURSIVE SectionsFrom(_, _, _, _)
\* for i, agent_result in enumerate(results, 1), from position i
SectionsFrom(results, temperature_configs, i, use_temperature_variation) ==
  IF i > Len(results) THEN [err |-> NoErr, parts |-> <<>>]
  ELSE IF i > Len(temperature_configs) THEN [err |-> ErrIndex, parts |-> <<>>]
  ELSE LET rest == SectionsFrom(results, temperature_configs, i + 1,
                                use_temperature_variation)
       IN [err |-> rest.err,
           parts |-> SectionParts(results[i], temperature_configs[i], i,
                                  use_temperature_variation) \o rest.parts]

ReportPreamble(user_input, use_temperature_variation) ==
  IF use_temperature_variation
    THEN << <<"# Temperature Variation Parallel Research Results - Lead Researcher Analysis">>,
            <<"## Research Query">>,
            <<user_input, "\n">>,
            <<"## Temperature Variation Approach">>,
            <<"Executed diverse analytical approaches from conservative to creative using different temperature settings.\n">> >>
    ELSE << <<"# Comprehensive Research Results - Lead Researcher Analysis (ThreadPool Parallel)">>,
            <<"## Executive Summary">>,
            <<"Integrated results from parallel investigation by 3 research agents.\n">> >>

\* the quality indicator lines: from the project configuration, or the
\* hardcoded fallback
QualityIndicators(c, agent_count) ==
  IF c.avail
    THEN << <<"- ", "cfg indicator: ", IntStr(agent_count), " agents">> >>
    ELSE << <<"- Temperature Variation: 0.2(conservative) -> 0.6(balanced) -> 0.9(creative)">>,
            <<"- Parallel Agents: ", IntStr(agent_count), " agents concurrent execution">>,
            <<"- Internal Document Search: ModularSearchPlugin integration">>,
            <<"- Diverse Approaches: Optimized analysis breadth and depth">>,
            <<"- Source Citations: Complete citation information for all results">> >>

\* the conclusion of a Standard report in both modes
ReportConclusionPlain(c, temperature_configs, use_temperature_variation) ==
  [err |-> NoErr,
   parts |-> << <<"\n## Integrated Analysis and Recommendations">>,
                <<"Integrating the multiple research results above to provide comprehensive analysis and recommendations.">> >>]

ReportConclusion(c, temperature_configs, use_temperature_variation) ==
  IF use_temperature_variation
    THEN IF c.avail /\ ~c.indOk THEN [err |-> ErrFormat, parts |-> <<>>]
         ELSE [err |-> NoErr,
               parts |-> << <<"\n## Temperature Variation Integrated Analysis">>,
                            <<"Integrating the results from diverse analytical approaches using different temperature settings to provide comprehensive analysis and recommendations.">>,
                            <<>>,
                            <<"### Research Quality Indicators">> >>
                         \o QualityIndicators(c, Len(temperature_configs))]
    ELSE [err |-> NoErr,
          parts |-> << <<"\n## Integrated Analysis and Recommendations">>,
                       <<"Integrating the multiple research results above to provide comprehensive analysis and recommendations.">> >>]

SynthesizeResults(c, results, temperature_configs, user_input, use_temperature_variation) ==
  LET sections == SectionsFrom(results, temperature_configs, 1,
                               use_temperature_variation)
      conclusion == ReportConclusion(c, temperature_configs,
                                     use_temperature_variation)
  IN IF sections.err # NoErr THEN [err |-> sections.err, parts |-> <<>>]
     ELSE IF conclusion.err # NoErr THEN [err |-> conclusion.err, parts |-> <<>>]
     ELSE [err |-> NoErr,
           parts |-> ReportPreamble(user_input, use_temperature_variation)
                     \o sections.parts \o conclusion.parts]

\* _get_error_message: the whole-batch fallback report
GetErrorMessage(c, user_input, error, use_temperature_variation) ==
  IF c.avail /\ c.tpl
    THEN IF use_temperature_variation
           THEN <<"cfg temperature_variation template: ", user_input, " ", error>>
           ELSE <<"cfg standard_parallel template: ", user_input, " ", error>>
  ELSE IF use_temperature_variation
    THEN <<"# Temperature Variation Parallel Research - Error\n\n## Research Query\n",
           user_input,
           "\n\n## Error\nAn error occurred during temperature variation parallel research agent execution: ",
           error>>
  ELSE <<"# Lead Researcher Analysis (ThreadPool Parallel)\n\n## Research Query\n",
         user_input,
         "\n\n## Error\nAn error occurred during parallel research agent execution: ",
         error>>

\* the except branch of ParallelResearchPlugin.execute_parallel_research
PluginErrorReport(query, error) ==
  <<"# Function Call Parallel Research - Error\n\n## Research Query\n", query,
    "\n\n## Error\nError occurred during parallel research execution: ", error,
    "\n\n## Status\nError occurred during parallel research execution via function calling. Please fallback to direct execution mode.\n">>

(***************************************************************************)
(* The tasks of a call: one _run_single_agent_with_thread per agent.       *)
(***************************************************************************)
\* temperature_configs[i]["temp"] for the task of agent i (1-based) in a
\* Variation run, no temperature in a Standard run
TaskTemperature(temperature_configs, i, use_temperature_variation) ==
  IF use_temperature_variation THEN temperature_configs[i].temp ELSE NoTemp

\* the temperature taken from what the agent was constructed with
BuildKernelArgumentsFromAgent(agent, temperature) ==
  [temperature |-> agent.temp]

\* _build_kernel_arguments: execution settings with the temperature given,
\* or the settings of the agent's service, which carry none
BuildKernelArguments(agent, temperature) ==
  [temperature |-> temperature]

\* the tasks launched for the first agent only
TaskTurnsFirstOnly(agents, user_input, temperature_configs, use_temperature_variation) ==
  [ i \in 1..Min(1, Len(agents)) |->
      [ agent |-> agents[i].id,
        messages |-> user_input,
        arguments |-> BuildKernelArguments(agents[i],
                        TaskTemperature(temperature_configs, i,
                                        use_temperature_variation)) ] ]

\* the tasks of a call, one per agent: the get_response call each issues
TaskTurns(agents, user_input, temperature_configs, use_temperature_variation) ==
  [ i \in DOMAIN agents |->
      [ agent |-> agents[i].id,
        messages |-> user_input,
        arguments |-> BuildKernelArguments(agents[i],
                        TaskTemperature(temperature_configs, i,
                                        use_temperature_variation)) ] ]

(***************************************************************************)
(* State.                                                                  *)
(***************************************************************************)
VARIABLES
  research_agents,  \* LeadResearcherAgent._research_agents, the pool
  nextId,           \* the identity of the next agent object constructed
  memory_plugin,    \* whether the lead agent holds a memory plugin
  cfg,              \* the project configuration
  slots,            \* how many Run calls the coordinator keeps in flight
  rpc,              \* per Run call: "idle", "running" (awaiting gather), "returned"
  call,             \* per Run call: its query, mode and entry point
  agents_to_use,    \* per Run call: the list _prepare_agents returned
  tpc,              \* per Run call and task: "invoke", "extract", "done"
  resp,             \* per Run call and task: what the agent runtime returned
  results,          \* per Run call and task: the task's result for gather
  output,           \* per Run call: what the call returned or raised
  completed,        \* per Run call: the tasks in the order they completed
  lastPrep,         \* the most recent _prepare_agents call and what it returned
  earlier,          \* an observer's note of one worker's part in an earlier report
  status,           \* the listing the last get_research_agents_status call returned
  temperature,      \* the argument of a _get_temperature_type_from_value call
  temperature_type, \* what that call returned
  trace,            \* the response handed to a _run_single_agent_with_thread turn
  extracted         \* the worker of that turn and what the turn returned

vars == << research_agents, nextId, memory_plugin, cfg, slots, rpc, call,
           agents_to_use, tpc, resp, results, output, completed, lastPrep,
           earlier, status, temperature, temperature_type, trace, extracted >>

\* the variables of the calls made outside a Run
calls == << status, temperature, temperature_type, trace, extracted >>

\* the Run calls that can be in flight together
MaxSlots == 2

Slots == 1..MaxSlots

Tasks == 1..TargetCount

\* turns: the get_response calls the tasks of the call issue
NoCall == [query |-> "", variation |-> FALSE, caller |-> "none", prepErr |-> NoErr,
           temperature_configs |-> <<>>, turns |-> <<>>]

NoOutput == [kind |-> "none", parts |-> <<>>, err |-> NoErr]

NoView == [valid |-> FALSE, variation |-> FALSE, query |-> "", k |-> 0,
           agents |-> <<>>, resp |-> NoOutcome, failed |-> {},
           result |-> NoResult, body |-> <<>>]

\* before: the pool the call found; repeat: the call before it had the same
\* mode and neither call raised
NoPrep == [called |-> FALSE, variation |-> FALSE, ok |-> FALSE, before |-> <<>>,
           agents |-> <<>>, built |-> 0, repeat |-> FALSE]

\* the pool a LeadResearcherAgent starts with, and lists a caller of
\* ResearchExecutor.execute_concurrent_research passes instead: none, two
\* or four agents, or three agents built without the memory plugin
InitialPools(mem) ==
  { CreateInitialResearchAgents(mem),
    <<>>,
    Take(CreateInitialResearchAgents(mem), 2),
    CreateInitialResearchAgents(mem) \o <<InitialResearchAgent(3, mem)>>,
    CreateInitialResearchAgents(FALSE) }

InitRuns ==
  /\ rpc = [r \in Slots |-> "idle"]
  /\ call = [r \in Slots |-> NoCall]
  /\ agents_to_use = [r \in Slots |-> <<>>]
  /\ tpc = [r \in Slots |-> <<>>]
  /\ resp = [r \in Slots |-> <<>>]
  /\ results = [r \in Slots |-> <<>>]
  /\ output = [r \in Slots |-> NoOutput]
  /\ completed = [r \in Slots |-> <<>>]
  /\ lastPrep = NoPrep
  /\ earlier = NoView

NoExtract == [worker |-> 0, result |-> NoResult]

\* no call has been made outside a Run
InitCalls ==
  /\ status = <<>>
  /\ temperature = 0
  /\ temperature_type = "none"
  /\ trace = NoOutcome
  /\ extracted = NoExtract

\* one Run call at a time, from every initial pool and configuration
Init ==
  /\ memory_plugin \in BOOLEAN
  /\ cfg \in ConfigStates
  /\ research_agents \in InitialPools(memory_plugin)
  /\ nextId = Len(research_agents) + 1
  /\ slots = 1
  /\ InitRuns
  /\ InitCalls

(***************************************************************************)
(* execute_concurrent_research up to its first suspension: the caller's    *)
(* entry, _prepare_agents, the construction of the tasks and gather.       *)
(* Nothing in between awaits, so it is one step.                           *)
(***************************************************************************)
\* what Run returns or raises when the executor raises error
Propagate(caller, query, error) ==
  IF caller = "plugin"
    THEN [kind |-> "plugin_error", parts |-> <<PluginErrorReport(query, error)>>,
          err |-> error]
    ELSE [kind |-> "raised", parts |-> <<>>, err |-> error]

Fallback(c, query, error, variation) ==
  [kind |-> "fallback",
   parts |-> <<GetErrorMessage(c, query, error, variation)>>,
   err |-> error]

StartRun(r, query, variation, caller, failAt) ==
  /\ rpc[r] = "idle"
  /\ caller = "plugin" => variation
  /\ LET prep == PrepareAgents(research_agents, variation, memory_plugin,
                               TargetCount, cfg, nextId, failAt)
         configs == GetTemperatureConfigs(cfg, variation)
         launched == prep.err = NoErr /\ ~(variation /\ Len(configs) < Len(prep.agents))
         turns == IF launched THEN TaskTurns(prep.agents, query, configs, variation)
                  ELSE <<>>
     IN /\ prep.next - 1 <= MaxId
        /\ failAt > 0 => prep.err = ErrConstruct
        /\ research_agents' = prep.pool
        /\ nextId' = prep.next
        /\ call' = [call EXCEPT ![r] = [query |-> query, variation |-> variation,
                                        caller |-> caller, prepErr |-> prep.err,
                                        temperature_configs |-> configs,
                                        turns |-> turns]]
        /\ lastPrep' = [called |-> TRUE, variation |-> variation,
                        before |-> research_agents,
                        ok |-> prep.err = NoErr, agents |-> prep.agents,
                        built |-> prep.built,
                        repeat |-> /\ lastPrep.called /\ lastPrep.ok
                                   /\ lastPrep.variation = variation
                                   /\ prep.err = NoErr]
        /\ agents_to_use' = [agents_to_use EXCEPT ![r] = prep.agents]
        /\ IF prep.err # NoErr
             THEN \* _prepare_agents is outside the try block
                  /\ rpc' = [rpc EXCEPT ![r] = "returned"]
                  /\ output' = [output EXCEPT ![r] = Propagate(caller, query, prep.err)]
                  /\ UNCHANGED << tpc, resp, results >>
           ELSE IF variation /\ Len(configs) < Len(prep.agents)
             THEN \* temperature_configs[i] in the task list raises inside the try
                  /\ rpc' = [rpc EXCEPT ![r] = "returned"]
                  /\ output' = [output EXCEPT ![r] =
                                  Fallback(cfg, query, ErrIndex, variation)]
                  /\ UNCHANGED << tpc, resp, results >>
           ELSE /\ rpc' = [rpc EXCEPT ![r] = "running"]
                /\ tpc' = [tpc EXCEPT ![r] = [i \in DOMAIN turns |-> "invoke"]]
                /\ resp' = [resp EXCEPT ![r] = [i \in DOMAIN turns |-> NoOutcome]]
                /\ results' = [results EXCEPT ![r] = [i \in DOMAIN turns |-> NoResult]]
                /\ UNCHANGED output
  /\ UNCHANGED << memory_plugin, cfg, slots, completed, earlier, calls >>

(***************************************************************************)
(* The task of agent i: _run_single_agent_with_thread.  It suspends in     *)
(* get_response and, for a response with a thread, in thread.get_messages. *)
(***************************************************************************)
\* results stored in the order of completion instead of the order of the tasks
StoreResultByCompletion(rs, i, res) ==
  LET free == {k \in DOMAIN rs : rs[k] = NoResult}
  IN IF free = {} THEN rs
     ELSE [rs EXCEPT ![CHOOSE k \in free : \A j \in free : k <= j] = res]

\* the result of a failed task replaces the results gathered so far
StoreResultShared(rs, i, res) ==
  IF res.text # <<>> /\ res.text[1] = "ERROR in "
    THEN [k \in DOMAIN rs |-> IF rs[k] = NoResult /\ k # i THEN NoResult ELSE res]
    ELSE [rs EXCEPT ![i] = res]

\* where gather stores the result of task i
StoreResult(rs, i, res) == [rs EXCEPT ![i] = res]

AgentResponds(r, i, o) ==
  /\ rpc[r] = "running"
  /\ i \in DOMAIN tpc[r]
  /\ tpc[r][i] = "invoke"
  /\ resp' = [resp EXCEPT ![r][i] = o]
  /\ IF o.invokeRaises \/ ~o.thread
       THEN /\ tpc' = [tpc EXCEPT ![r][i] = "done"]
            /\ results' = [results EXCEPT ![r] =
                 StoreResult(results[r], i,
                             RunSingleAgentWithThread(agents_to_use[r][i], o))]
            /\ completed' = [completed EXCEPT ![r] = Append(@, i)]
       ELSE /\ tpc' = [tpc EXCEPT ![r][i] = "extract"]
            /\ UNCHANGED << results, completed >>
  /\ UNCHANGED << research_agents, nextId, memory_plugin, cfg, slots, rpc, call,
                  agents_to_use, output, lastPrep, earlier, calls >>

\* a task that looks its agent up in the pool when it resumes
ThreadReadFromPool(r, i, o) ==
  /\ rpc[r] = "running"
  /\ i \in DOMAIN tpc[r]
  /\ tpc[r][i] = "extract"
  /\ tpc' = [tpc EXCEPT ![r][i] = "done"]
  /\ resp' = [resp EXCEPT ![r][i] = o]
  /\ results' = [results EXCEPT ![r] =
       StoreResult(results[r], i,
                   RunSingleAgentWithThread(research_agents[i], o))]
  /\ completed' = [completed EXCEPT ![r] = Append(@, i)]
  /\ UNCHANGED << research_agents, nextId, memory_plugin, cfg, slots, rpc, call,
                  agents_to_use, output, lastPrep, earlier, calls >>

ThreadRead(r, i, o) ==
  /\ rpc[r] = "running"
  /\ i \in DOMAIN tpc[r]
  /\ tpc[r][i] = "extract"
  /\ tpc' = [tpc EXCEPT ![r][i] = "done"]
  /\ resp' = [resp EXCEPT ![r][i] = o]
  /\ results' = [results EXCEPT ![r] =
       StoreResult(results[r], i,
                   RunSingleAgentWithThread(agents_to_use[r][i], o))]
  /\ completed' = [completed EXCEPT ![r] = Append(@, i)]
  /\ UNCHANGED << research_agents, nextId, memory_plugin, cfg, slots, rpc, call,
                  agents_to_use, output, lastPrep, earlier, calls >>

(***************************************************************************)
(* gather returns, _synthesize_results runs and the call returns.          *)
(***************************************************************************)
\* a wait that returns as soon as one task has completed
GatherFirstDone(r) == \E i \in DOMAIN tpc[r] : tpc[r][i] = "done"

\* asyncio.gather(*tasks): every task has completed
GatherDone(r) == \A i \in DOMAIN tpc[r] : tpc[r][i] = "done"

FinishRun(r) ==
  /\ rpc[r] = "running"
  /\ GatherDone(r)
  /\ LET variation == call[r].variation
         syn == SynthesizeResults(cfg, results[r], call[r].temperature_configs,
                                  call[r].query, variation)
     IN output' = [output EXCEPT ![r] =
          IF syn.err = NoErr
            THEN [kind |-> "report", parts |-> syn.parts, err |-> NoErr]
            ELSE Fallback(cfg, call[r].query, syn.err, variation)]
  /\ rpc' = [rpc EXCEPT ![r] = "returned"]
  /\ UNCHANGED << research_agents, nextId, memory_plugin, cfg, slots, call,
                  agents_to_use, tpc, resp, results, completed, lastPrep, earlier, calls >>

\* the coordinator takes the returned value; the call's frame is gone
Collect(r) ==
  /\ rpc[r] = "returned"
  /\ rpc' = [rpc EXCEPT ![r] = "idle"]
  /\ call' = [call EXCEPT ![r] = NoCall]
  /\ agents_to_use' = [agents_to_use EXCEPT ![r] = <<>>]
  /\ tpc' = [tpc EXCEPT ![r] = <<>>]
  /\ resp' = [resp EXCEPT ![r] = <<>>]
  /\ results' = [results EXCEPT ![r] = <<>>]
  /\ output' = [output EXCEPT ![r] = NoOutput]
  /\ completed' = [completed EXCEPT ![r] = <<>>]
  /\ UNCHANGED << research_agents, nextId, memory_plugin, cfg, slots, lastPrep,
                  earlier, calls >>

Callers == {"direct", "plugin"}

Next ==
  \/ \E r \in 1..slots, q \in Queries, v \in BOOLEAN, c \in Callers,
        f \in 0..TargetCount : StartRun(r, q, v, c, f)
  \/ \E r \in 1..slots, i \in Tasks, o \in InvokeOutcomes : AgentResponds(r, i, o)
  \/ \E r \in 1..slots, i \in Tasks, o \in ThreadOutcomes : ThreadRead(r, i, o)
  \/ \E r \in 1..slots : FinishRun(r)
  \/ \E r \in 1..slots : Collect(r)

Spec == Init /\ [][Next]_vars


(***************************************************************************)
(* Reading a report back: its per-worker sections.                         *)
(***************************************************************************)
IsSectionHeader(part) ==
  /\ part # <<>>
  /\ part[1] \in {"## Research Perspective ", "### Temperature "}

\* the positions of the section headers, in order
SectionHeads(parts) ==
  LET IsHead(p) == IsSectionHeader(parts[p])
  IN SelectSeq([p \in 1..Len(parts) |-> p], IsHead)

\* the position of the first line of the conclusion
ConclusionPos(parts) ==
  CHOOSE p \in DOMAIN parts :
    /\ parts[p] # <<>>
    /\ parts[p][1] \in {"\n## Temperature Variation Integrated Analysis",
                        "\n## Integrated Analysis and Recommendations"}

\* the first position after section k
SectionEnd(parts, k) ==
  LET heads == SectionHeads(parts)
  IN IF k < Len(heads) THEN heads[k + 1] ELSE ConclusionPos(parts)

\* the header line of section k
SectionHeader(parts, k) == parts[SectionHeads(parts)[k]]

\* the lines of section k below its header
SectionLines(parts, k) ==
  { parts[p] : p \in (SectionHeads(parts)[k] + 1)..(SectionEnd(parts, k) - 1) }

\* the line of section k that carries the worker's text
SectionBody(parts, k, variation) ==
  parts[SectionEnd(parts, k) - (IF variation THEN 2 ELSE 1)]

\* the header _synthesize_results gives the section of index k
IndexHeader(c, k, variation) ==
  IF variation THEN VariationHeader(GetTemperatureConfigs(c, TRUE)[k])
  ELSE StandardHeader(k)

\* a Run call returned a synthesized report
Reported(r) == rpc[r] = "returned" /\ output[r].kind = "report"

\* the turn of task i of call r failed: get_response raised, or reading
\* the trace raised
TurnFailed(r, i) ==
  /\ i \in DOMAIN tpc[r]
  /\ tpc[r][i] = "done"
  /\ \/ resp[r][i].invokeRaises
     \/ ProcessAgentResponse(agents_to_use[r][i], resp[r][i]).err # NoErr

\* the error text of a failed turn
TurnError(r, i) ==
  IF resp[r][i].invokeRaises THEN ErrInvoke
  ELSE ProcessAgentResponse(agents_to_use[r][i], resp[r][i]).err

(***************************************************************************)
(* Two executions of the same batch.  An observer notes, of a report, the  *)
(* part of one worker: its turn's outcome, its result and its section, and *)
(* which workers failed; a later report is compared with the note.  The    *)
(* pool is the one of a LeadResearcherAgent with a memory plugin.          *)
(***************************************************************************)
WorkerView(r, k) ==
  [ valid |-> TRUE, variation |-> call[r].variation, query |-> call[r].query,
    k |-> k, agents |-> agents_to_use[r], resp |-> resp[r][k],
    failed |-> {i \in Tasks : TurnFailed(r, i)},
    result |-> results[r][k],
    body |-> SectionBody(output[r].parts, k, call[r].variation) ]

Remember(r, k) ==
  /\ Reported(r)
  /\ earlier' = WorkerView(r, k)
  /\ UNCHANGED << research_agents, nextId, memory_plugin, cfg, slots, rpc, call,
                  agents_to_use, tpc, resp, results, output, completed, lastPrep,
                  calls >>

InitNI ==
  /\ memory_plugin = TRUE
  /\ cfg \in {c \in ConfigStates : c.indOk /\ Len(GetTemperatureConfigs(c, TRUE)) = TargetCount}
  /\ research_agents = CreateInitialResearchAgents(memory_plugin)
  /\ nextId = Len(research_agents) + 1
  /\ slots = 1
  /\ InitRuns
  /\ InitCalls

NextNI ==
  \/ Next
  \/ \E r \in 1..slots, k \in Tasks : Remember(r, k)

SpecNI == InitNI /\ [][NextNI]_vars

(***************************************************************************)
(* C1: in both modes, with a pool of 3 workers, the synthesized report has *)
(* exactly 3 per-worker sections; section k carries the header of index k  *)
(* and the text of the worker at index k (what that worker's own turn      *)
(* produced), whatever the order in which the 3 tasks completed.           *)
(***************************************************************************)
C1_SectionsInIndexOrder ==
  \A r \in Slots :
    Reported(r) =>
      /\ Len(SectionHeads(output[r].parts)) = TargetCount
      /\ \A k \in 1..TargetCount :
           /\ SectionHeader(output[r].parts, k)
                = IndexHeader(cfg, k, call[r].variation)
           /\ SectionBody(output[r].parts, k, call[r].variation)
                = RunSingleAgentWithThread(agents_to_use[r][k], resp[r][k]).text

\* a report whose tasks completed in the order 3, 1, 2, each with a
\* different outcome
C1_Witness ==
  \E r \in Slots :
    /\ Reported(r)
    /\ completed[r] = <<3, 1, 2>>
    /\ resp[r][3] = OutRaise /\ resp[r][1] = OutThread /\ resp[r][2] = OutContent

\* the result of task i is the marker of a failure: an exception, or the
\* string the except clause builds
Failed(agent_result) ==
  \/ agent_result.exc
  \/ agent_result.text # <<>> /\ agent_result.text[1] = "ERROR in "

\* the call got past _prepare_agents and launched its tasks
FannedOut(r) == rpc[r] # "idle" /\ tpc[r] # <<>>

\* _synthesize_results raises for this configuration and mode, whatever
\* the results are
SynthesisRaises(c, variation) ==
  ReportConclusion(c, GetTemperatureConfigs(c, variation), variation).err # NoErr

C3_FailedSectionReadsError ==
  \A r \in Slots :
    Reported(r) =>
      \A i \in Tasks :
        TurnFailed(r, i) =>
          /\ Failed(results[r][i])
          /\ <<"Error: ", TurnError(r, i)>> \in SectionLines(output[r].parts, i)

(***************************************************************************)
(* C5: Run never raises: whatever pool preparation, the workers and        *)
(* synthesis do, it returns a full report or a fallback error report.      *)
(***************************************************************************)
C5_RunNeverRaises ==
  \A r \in Slots :
    rpc[r] = "returned" => output[r].kind \in {"report", "fallback"}

(***************************************************************************)
(* C6: when pool preparation raises an error with message M, no task is    *)
(* launched and Run returns the fallback template of its mode, holding the *)
(* query and M and no per-worker section.                                  *)
(***************************************************************************)
C6_PrepareFailureGivesFallback ==
  \A r \in Slots :
    (rpc[r] = "returned" /\ call[r].prepErr # NoErr) =>
      /\ tpc[r] = <<>>
      /\ output[r].kind = "fallback"
      /\ output[r].parts
           = <<GetErrorMessage(cfg, call[r].query, call[r].prepErr,
                               call[r].variation)>>
      /\ SectionHeads(output[r].parts) = <<>>

(***************************************************************************)
(* C7: fan-in barrier: while any task of a batch has not completed, the    *)
(* call has not returned and no report, partial or full, exists; there is  *)
(* no timeout that completes a task.                                       *)
(***************************************************************************)
C7_FanInBarrier ==
  \A r \in Slots :
    (\E i \in DOMAIN tpc[r] : tpc[r][i] # "done") =>
      /\ rpc[r] = "running"
      /\ output[r] = NoOutput

\* two tasks have completed, one of them with a failure, and the third is
\* still waiting for its model call
C7_Witness ==
  \E r \in Slots :
    /\ rpc[r] = "running"
    /\ tpc[r] = <<"done", "invoke", "done">>
    /\ TurnFailed(r, 3)

\* the profile a worker was constructed for, read off the worker
BoundToProfile(agent, temp_config) ==
  /\ agent.name = GetAgentName(temp_config.agent_suffix)
  /\ agent.temp = temp_config.temp

(***************************************************************************)
(* C8: whatever runs came before, Prepare in Variation mode returns        *)
(* workers bound to the Variation profiles Conservative, Balanced,         *)
(* Creative in this order; no worker of a Variation run carries the        *)
(* profile of an earlier run.                                              *)
(***************************************************************************)
C8_VariationWorkersBoundToProfiles ==
  \A r \in Slots :
    (rpc[r] # "idle" /\ call[r].variation /\ call[r].prepErr = NoErr) =>
      /\ Len(agents_to_use[r]) = TargetCount
      /\ \A k \in 1..TargetCount :
           BoundToProfile(agents_to_use[r][k], GetDefaultTemperatureConfigs[k])

\* a step is a _prepare_agents call
PrepareStep == \E r \in Slots : rpc[r] = "idle" /\ rpc'[r] # "idle"

\* the identities of a list of agents
Ids(agents) == [k \in DOMAIN agents |-> agents[k].id]

(***************************************************************************)
(* C9: Prepare idempotence in Standard mode: a Standard Prepare that       *)
(* follows a Standard Prepare with the same memory plugin and target       *)
(* count, neither raising, returns the same worker identities at the same  *)
(* indices and constructs no worker.                                       *)
(***************************************************************************)
C9_StandardPrepareIdempotent ==
  [][ ( /\ PrepareStep
        /\ lastPrep.called /\ lastPrep.ok /\ ~lastPrep.variation
        /\ lastPrep'.ok /\ ~lastPrep'.variation )
      => ( /\ lastPrep'.agents = lastPrep.agents
           /\ lastPrep'.built = 0
           /\ nextId' = nextId ) ]_vars

\* a second Standard Prepare after one that had to construct or repair
\* workers
C9_Witness ==
  /\ lastPrep.repeat /\ ~lastPrep.variation /\ lastPrep.built = 0
  /\ \E k \in DOMAIN lastPrep.agents : lastPrep.agents[k].name[1] = "RESEARCHER_"

(***************************************************************************)
(* C10 as stated: the second of two Variation Prepare calls returns only   *)
(* new worker identities.                                                  *)
(***************************************************************************)
C10_VariationPrepareRecreates ==
  [][ ( /\ PrepareStep
        /\ lastPrep.called /\ lastPrep.ok /\ lastPrep.variation
        /\ lastPrep'.ok /\ lastPrep'.variation )
      => Range(Ids(lastPrep'.agents)) \cap Range(Ids(lastPrep.agents)) = {} ]_vars

(***************************************************************************)
(* C10 amended: a Variation Prepare that follows a Variation Prepare with  *)
(* the same memory plugin and target count, neither raising, returns the   *)
(* same worker identities at the same indices and constructs no worker.    *)
(***************************************************************************)
C10_VariationPrepareReuses ==
  [][ ( /\ PrepareStep
        /\ lastPrep.called /\ lastPrep.ok /\ lastPrep.variation
        /\ lastPrep'.ok /\ lastPrep'.variation )
      => ( /\ lastPrep'.agents = lastPrep.agents
           /\ lastPrep'.built = 0 ) ]_vars

\* a second Variation Prepare after one that rebuilt the pool
C10_Witness ==
  /\ lastPrep.repeat /\ lastPrep.variation /\ lastPrep.built = 0
  /\ \E k \in DOMAIN lastPrep.agents : lastPrep.agents[k].name[1] = "RESEARCHER_"

(***************************************************************************)
(* C4: isolation as non-interference: of two executions of the same batch  *)
(* (same workers, query and mode) in which worker k's own turn has the     *)
(* same outcome, whatever the other workers do in either of them (fail or  *)
(* not), worker k's result and the body of its report section are the      *)
(* same.                                                                   *)
(***************************************************************************)
C4_NonInterference ==
  \A r \in Slots :
    ( /\ Reported(r)
      /\ earlier.valid
      /\ call[r].variation = earlier.variation
      /\ call[r].query = earlier.query
      /\ agents_to_use[r] = earlier.agents
      /\ resp[r][earlier.k] = earlier.resp )
    => ( /\ results[r][earlier.k] = earlier.result
         /\ SectionBody(output[r].parts, earlier.k, call[r].variation)
              = earlier.body )

\* no worker failed in the earlier execution, workers 2 and 3 fail in the
\* later one after worker 1 has completed, and worker 1 is compared
C4_Witness ==
  \E r \in Slots :
    /\ Reported(r)
    /\ earlier.valid /\ earlier.k = 1 /\ earlier.failed = {}
    /\ call[r].variation = earlier.variation
    /\ call[r].query = earlier.query
    /\ agents_to_use[r] = earlier.agents
    /\ resp[r][1] = earlier.resp
    /\ completed[r][1] = 1
    /\ TurnFailed(r, 2) /\ TurnFailed(r, 3)

(***************************************************************************)
(* Calls of the temperature classifier on its own.  A temperature is an    *)
(* integer number of hundred-thousandths: 0.3 is 30000, 0.30001 is 30001.  *)
(***************************************************************************)
\* the largest temperature, 1.0
MaxTemperature == 100000

\* a LeadResearcherAgent with a memory plugin and no project configuration,
\* before any Run
InitLead ==
  /\ memory_plugin = TRUE
  /\ cfg = [avail |-> FALSE, types |-> {}, indOk |-> TRUE, tpl |-> FALSE]
  /\ research_agents = CreateInitialResearchAgents(memory_plugin)
  /\ nextId = Len(research_agents) + 1
  /\ slots = 1
  /\ InitRuns

InitClassify ==
  /\ InitLead
  /\ status = <<>>
  /\ temperature \in 0..MaxTemperature
  /\ temperature_type = "none"
  /\ trace = NoOutcome
  /\ extracted = NoExtract

\* one _get_temperature_type_from_value(temperature) call
Classify ==
  /\ temperature_type = "none"
  /\ temperature_type' = GetTemperatureTypeFromValue(temperature)
  /\ UNCHANGED << research_agents, nextId, memory_plugin, cfg, slots, rpc, call,
                  agents_to_use, tpc, resp, results, output, completed, lastPrep,
                  earlier, status, temperature, trace, extracted >>

NextClassify == Classify

SpecClassify == InitClassify /\ [][NextClassify]_vars

(***************************************************************************)
(* C11: the classifier returns a type for every temperature in [0, 1], and *)
(* the type is Conservative exactly up to 0.3, Balanced above 0.3 up to    *)
(* 0.7 and Creative above 0.7: 0.3 is Conservative, 0.30001 Balanced, 0.7  *)
(* Balanced and 0.70001 Creative.                                          *)
(***************************************************************************)
C11_ClassifyThresholds ==
  temperature_type # "none" =>
    /\ temperature_type \in {"conservative", "balanced", "creative"}
    /\ temperature_type = "conservative" <=> temperature <= 30000
    /\ temperature_type = "balanced" <=> (30000 < temperature /\ temperature <= 70000)
    /\ temperature_type = "creative" <=> temperature > 70000
    /\ temperature = 30000 => temperature_type = "conservative"
    /\ temperature = 30001 => temperature_type = "balanced"
    /\ temperature = 70000 => temperature_type = "balanced"
    /\ temperature = 70001 => temperature_type = "creative"

\* the classifier has been called on 0.7
C11_Witness == temperature = 70000 /\ temperature_type = "balanced"

\* the suffixes of a list of temperature configurations, in order
Suffixes(temperature_configs) ==
  [k \in DOMAIN temperature_configs |-> temperature_configs[k].agent_suffix]

(***************************************************************************)
(* C12: whatever the project configuration is (unavailable, or defining    *)
(* all or only some of the three variations), the profiles a Variation run *)
(* works with are exactly three, Conservative, Balanced, Creative in this  *)
(* order, and the hardcoded ones when the configuration is unavailable;    *)
(* the profiles of a Standard run are exactly three, without temperature,  *)
(* labelled "1", "2", "3".                                                 *)
(***************************************************************************)
C12_ThreeProfilesInOrder ==
  \A r \in Slots :
    rpc[r] # "idle" =>
      LET configs == call[r].temperature_configs
      IN IF call[r].variation
           THEN /\ Suffixes(configs) = <<"CONSERVATIVE", "BALANCED", "CREATIVE">>
                /\ ~cfg.avail => configs = GetDefaultTemperatureConfigs
           ELSE /\ Suffixes(configs) = <<"1", "2", "3">>
                /\ \A k \in DOMAIN configs : configs[k].temp = NoTemp

(***************************************************************************)
(* Turns of a worker on their own: a response of the agent runtime goes    *)
(* through _process_agent_response and the return of                       *)
(* _run_single_agent_with_thread.                                          *)
(***************************************************************************)
\* the messages a thread holds at most
MaxMessages == 2

\* str(arguments) or str(result) one character longer than the preview
LongText == [k \in 1..(ArgumentsPreview + 1) |-> "x"]

TraceItems ==
  { <<>>,
    <<FunctionCall("search", <<"q">>, "c1")>>,
    <<FunctionResult("search", <<"r">>, "")>>,
    <<OtherItem>>,
    <<FunctionCall("search", <<"q">>, ""), FunctionResult("search", <<>>, "c1")>>,
    <<FunctionCall("search", LongText, "c2")>>,
    <<FunctionResult("search", LongText, "c2")>> }

TraceMessages == { Message(c, items) : c \in {"", "B"}, items \in TraceItems }

\* the lists of at most n messages
MessageLists(n) == UNION { [1..k -> TraceMessages] : k \in 0..n }

\* the responses get_response can return
Traces ==
  { Outcome(FALSE, TRUE, ms, rr, c, cr) :
      ms \in MessageLists(MaxMessages), rr \in BOOLEAN, c \in {"", "A"},
      cr \in BOOLEAN }
  \cup { Outcome(FALSE, FALSE, <<>>, FALSE, c, cr) : c \in {"", "A"}, cr \in BOOLEAN }

InitExtract ==
  /\ InitLead
  /\ status = <<>>
  /\ temperature = 0
  /\ temperature_type = "none"
  /\ trace \in {t \in Traces : t.contentRaises => t.content # ""}
  /\ extracted = NoExtract

\* the turn of worker k on the response trace
Extract(k) ==
  /\ extracted = NoExtract
  /\ k \in DOMAIN research_agents
  /\ extracted' = [worker |-> k,
                   result |-> RunSingleAgentWithThread(research_agents[k], trace)]
  /\ UNCHANGED << research_agents, nextId, memory_plugin, cfg, slots, rpc, call,
                  agents_to_use, tpc, resp, results, output, completed, lastPrep,
                  earlier, status, temperature, temperature_type, trace >>

NextExtract == \E k \in Tasks : Extract(k)

SpecExtract == InitExtract /\ [][NextExtract]_vars

\* the response carries no text: no content, no message content and no
\* function call or result
NoText(response) ==
  /\ response.content = ""
  /\ \A k \in DOMAIN response.messages :
       /\ response.messages[k].content = ""
       /\ \A j \in DOMAIN response.messages[k].items :
            response.messages[k].items[j].kind = "other"

(***************************************************************************)
(* C13: for every response (no thread, an empty thread, messages without   *)
(* text, only tool items, a thread that cannot be read), the turn returns  *)
(* a text and raises nothing; the text is never empty, and for a response  *)
(* that carries no text it is "No content generated by <worker name>".     *)
(***************************************************************************)
C13_ExtractNeverEmpty ==
  extracted.worker # 0 =>
    LET res == extracted.result
        agent == research_agents[extracted.worker]
    IN /\ ~res.exc
       /\ \E k \in DOMAIN res.text : res.text[k] # ""
       /\ NoText(trace) =>
            res.text = <<"No content generated by ">> \o agent.name

\* the turn of worker 2 on a thread whose one message has no content and
\* an item that is neither a call nor a result
C13_Witness ==
  /\ extracted.worker = 2
  /\ trace.thread /\ ~trace.readRaises
  /\ trace.messages = <<Message("", <<OtherItem>>)>>
  /\ extracted.result.text = <<"No content generated by ", "RESEARCHER", "2">>

(***************************************************************************)
(* C14: a Standard report of N worker results is, in this order: a title,  *)
(* the "Executive Summary" preamble, N sections labelled Research          *)
(* Perspective 1..N, the body of section k being the text worker k's turn  *)
(* returned, and the "Integrated Analysis" trailer.                        *)
(***************************************************************************)
C14_StandardReportLayout ==
  \A r \in Slots :
    (Reported(r) /\ ~call[r].variation) =>
      LET parts == output[r].parts
          n == Len(results[r])
      IN /\ Len(parts) = 3 + 2 * n + 2
         /\ parts[1] = <<"# Comprehensive Research Results - Lead Researcher Analysis (ThreadPool Parallel)">>
         /\ parts[2] = <<"## Executive Summary">>
         /\ \A k \in 1..n :
              /\ parts[2 + 2 * k]
                   = <<"## Research Perspective ", ToString(k), " - RESEARCHER", ToString(k)>>
              /\ parts[3 + 2 * k]
                   = RunSingleAgentWithThread(agents_to_use[r][k], resp[r][k]).text
         /\ parts[4 + 2 * n] = <<"\n## Integrated Analysis and Recommendations">>

\* a Standard report of three workers that all returned a text, two of
\* them from the response and one from its thread
C14_Witness ==
  \E r \in Slots :
    /\ Reported(r) /\ ~call[r].variation
    /\ resp[r] = <<OutContent, OutThread, OutContent>>
    /\ output[r].parts[5] = <<"A">> /\ output[r].parts[7] = <<"B">>

(***************************************************************************)
(* C15: in a Variation report the section of worker k is labelled with the *)
(* approach of the profile at index k, and the report ends with the        *)
(* quality indicators block, whatever workers failed; the section of a     *)
(* failed worker carries its label and the error text, the section of any  *)
(* other worker the text its turn returned.                                *)
(***************************************************************************)
C15_VariationReportLayout ==
  \A r \in Slots :
    (Reported(r) /\ call[r].variation) =>
      LET parts == output[r].parts
          heads == SectionHeads(parts)
      IN /\ Len(heads) = Len(results[r])
         /\ \A k \in DOMAIN heads :
              LET profile == GetProjectTemperatureConfigs(cfg)[k]
                  body == SectionBody(parts, k, TRUE)
              IN /\ Len(parts[heads[k]]) = 4
                 /\ parts[heads[k]][4] = profile.approach
                 /\ <<"**Approach**: ", profile.approach>> \in SectionLines(parts, k)
                 /\ IF TurnFailed(r, k)
                      THEN TurnError(r, k) \in Range(body)
                      ELSE body = ProcessAgentResponse(agents_to_use[r][k],
                                                       resp[r][k]).final_content
         /\ \E q \in DOMAIN parts :
              /\ parts[q] = <<"### Research Quality Indicators">>
              /\ q > heads[Len(heads)]
              /\ q < Len(parts)
              /\ \A p \in (q + 1)..Len(parts) :
                   parts[p] \in Range(QualityIndicators(cfg, Len(results[r])))

\* a Variation report in which only the Balanced worker failed
C15_Witness ==
  \E r \in Slots :
    /\ Reported(r) /\ call[r].variation
    /\ resp[r] = <<OutContent, OutRaise, OutThread>>
    /\ SectionHeader(output[r].parts, 2)[4] \in {"Balanced analysis", "cfg balanced"}

(***************************************************************************)
(* get_research_agents_status: the listing of the lead agent's pool.  It   *)
(* does not suspend, so it is one step between the steps of the Run calls. *)
(***************************************************************************)
\* plugin.name for the plugins of the agent's kernel
PluginNames(agent) ==
  <<"ModularSearchPlugin">>
  \o (IF agent.memory # "none" THEN <<"MemoryPlugin">> ELSE <<>>)

\* the lines of agent i (1-based)
AgentStatusParts(agent, i) ==
  << <<"### Agent ", IntStr(i), ": ">> \o agent.name,
     <<"- Type: ", "ChatCompletionAgent">>,
     <<"- Description: ">> \o agent.description,
     <<"- Plugins: ">> \o PluginNames(agent),
     <<>> >>

\* a listing of the agents the lead agent was constructed with
GetInitialAgentsStatus(agents) ==
  << <<"# Internal Research Agents Status">>,
     <<"## Available Agents: ", IntStr(3)>>,
     <<>> >>
  \o Flatten([i \in 1..3 |->
                AgentStatusParts(CreateInitialResearchAgents(FALSE)[i], i)])
  \o << <<"## Execution Mode">>,
        <<"- Parallel execution mode: enabled">>,
        <<"- Function calling integration: enabled">>,
        <<"- Dynamic execution: enabled">> >>

GetResearchAgentsStatus(agents) ==
  << <<"# Internal Research Agents Status">>,
     <<"## Available Agents: ", IntStr(Len(agents))>>,
     <<>> >>
  \o Flatten([i \in DOMAIN agents |-> AgentStatusParts(agents[i], i)])
  \o << <<"## Execution Mode">>,
        <<"- Parallel execution mode: enabled">>,
        <<"- Function calling integration: enabled">>,
        <<"- Dynamic execution: enabled">> >>

Status ==
  /\ status' = GetResearchAgentsStatus(research_agents)
  /\ UNCHANGED << research_agents, nextId, memory_plugin, cfg, slots, rpc, call,
                  agents_to_use, tpc, resp, results, output, completed, lastPrep,
                  earlier, temperature, temperature_type, trace, extracted >>

\* a lead agent with a memory plugin and no project configuration, on any
\* of the initial pools
InitStatus ==
  /\ memory_plugin = TRUE
  /\ cfg = [avail |-> FALSE, types |-> {}, indOk |-> TRUE, tpl |-> FALSE]
  /\ research_agents \in InitialPools(memory_plugin)
  /\ nextId = Len(research_agents) + 1
  /\ slots = 1
  /\ InitRuns
  /\ InitCalls

NextStatus ==
  \/ Next
  \/ Status

SpecStatus == InitStatus /\ [][NextStatus]_vars

\* reading a listing back: the positions of its agent headings
IsAgentHeading(part) == part # <<>> /\ part[1] = "### Agent "

AgentHeadings(parts) ==
  LET IsHead(p) == IsAgentHeading(parts[p])
  IN SelectSeq([p \in 1..Len(parts) |-> p], IsHead)

\* entry k of a listing: the index it shows, the name and the plugins
StatusEntry(parts, k) ==
  LET p == AgentHeadings(parts)[k]
  IN [ index |-> parts[p][2],
       name |-> SubSeq(parts[p], 4, Len(parts[p])),
       plugins |-> Tail(parts[p + 3]) ]

\* the entry a worker at index k has in a listing
WorkerEntry(agent, k) ==
  [ index |-> ToString(k),
    name |-> agent.name,
    plugins |-> <<"ModularSearchPlugin">>
                \o (IF HasMemoryPlugin(agent) THEN <<"MemoryPlugin">> ELSE <<>>) ]

\* the listing shows exactly the workers of the pool, in index order
ListsPool(parts, pool) ==
  /\ Len(AgentHeadings(parts)) = Len(pool)
  /\ \A k \in DOMAIN pool : StatusEntry(parts, k) = WorkerEntry(pool[k], k)

(***************************************************************************)
(* C16: whatever Run calls came before, in either mode, with repair,       *)
(* recreation or a failed preparation, a Status call lists exactly the     *)
(* workers in the pool at the time of the call: one entry per worker, in   *)
(* index order, with the worker's name and the plugins it holds.           *)
(***************************************************************************)
C16_StatusListsCurrentPool ==
  [][ status' # status => ListsPool(status', research_agents') ]_vars

\* a listing taken after a Prepare replaced the workers of the pool
C16_Witness ==
  /\ status # <<>>
  /\ ListsPool(status, research_agents)
  /\ Len(research_agents) = TargetCount
  /\ \A k \in DOMAIN research_agents : research_agents[k].name[1] = "RESEARCHER_"

(***************************************************************************)
(* C17: once the tasks of a call have been launched, no error (in a task,  *)
(* in gathering, in synthesis) makes the call return the fallback          *)
(* template: the fallback is returned only by calls whose pool preparation *)
(* failed.                                                                 *)
(***************************************************************************)
C17_NoFallbackAfterFanOut ==
  \A r \in Slots :
    (rpc[r] = "returned" /\ FannedOut(r)) =>
      /\ output[r].kind # "fallback"
      /\ call[r].prepErr = NoErr

(***************************************************************************)
(* Two Run calls in flight on the same pool: the coordinator starts a      *)
(* second call while the tasks of the first are suspended.                 *)
(***************************************************************************)
InitOverlap ==
  /\ memory_plugin = TRUE
  /\ cfg = [avail |-> FALSE, types |-> {}, indOk |-> TRUE, tpl |-> FALSE]
  /\ research_agents \in
       { CreateInitialResearchAgents(TRUE),
         CreateInitialResearchAgents(TRUE) \o <<InitialResearchAgent(3, TRUE)>> }
  /\ nextId = Len(research_agents) + 1
  /\ slots = 2
  /\ InitRuns
  /\ InitCalls

\* the calls come from the lead agent itself, every construction succeeds,
\* and a turn gives the content of its response or finds its thread empty
NextOverlap ==
  \/ \E r \in 1..slots, q \in Queries, v \in BOOLEAN :
        StartRun(r, q, v, "direct", 0)
  \/ \E r \in 1..slots, i \in Tasks, o \in {OutContent, OutPending} :
        AgentResponds(r, i, o)
  \/ \E r \in 1..slots, i \in Tasks : ThreadRead(r, i, OutPending)
  \/ \E r \in 1..slots : FinishRun(r)
  \/ \E r \in 1..slots : Collect(r)

SpecOverlap == InitOverlap /\ [][NextOverlap]_vars

\* a batch has a task that has not completed
InFlight(r) == rpc[r] = "running" /\ \E i \in DOMAIN tpc[r] : tpc[r][i] # "done"

(***************************************************************************)
(* C18: pool mutation and batch execution exclude each other: the tasks of *)
(* a call are launched only after its own Prepare has returned, and while  *)
(* a batch has a task in flight no step, of this or of an overlapping Run  *)
(* call, changes the pool.                                                 *)
(***************************************************************************)
C18_NoPoolMutationDuringBatch ==
  [][ /\ \A r \in Slots :
           (tpc[r] = <<>> /\ tpc'[r] # <<>>) =>
             /\ lastPrep'.called /\ lastPrep'.ok
             /\ agents_to_use'[r] = lastPrep'.agents
      /\ (\E r \in Slots : InFlight(r)) => research_agents' = research_agents
    ]_vars

\* the most recent Prepare was a Standard one that returned normally
StandardPrepared == lastPrep.called /\ lastPrep.ok /\ ~lastPrep.variation

(***************************************************************************)
(* C19: a Standard Prepare with a memory plugin on a pool of at least      *)
(* target_count workers replaces, at its own index, every one of the first *)
(* target_count workers that lacks the memory plugin by a new worker with  *)
(* the search and the memory plugin, and leaves every other worker under   *)
(* its identity at its index.                                              *)
(***************************************************************************)
C19_RepairIsPerWorker ==
  (StandardPrepared /\ memory_plugin /\ Len(lastPrep.before) >= TargetCount) =>
    /\ Len(research_agents) = Len(lastPrep.before)
    /\ lastPrep.agents = Take(research_agents, TargetCount)
    /\ \A k \in DOMAIN research_agents :
         IF k <= TargetCount /\ lastPrep.before[k].memory = "none"
           THEN /\ research_agents[k].id \notin Range(Ids(lastPrep.before))
                /\ research_agents[k].memory = "shared"
                /\ research_agents[k].search = research_agents[k].id
                /\ BoundToProfile(research_agents[k],
                                  GetTemperatureConfigs(cfg, FALSE)[k])
           ELSE research_agents[k] = lastPrep.before[k]

\* a Standard Prepare found a worker with the memory plugin and two
\* without it
C19_Witness ==
  /\ StandardPrepared /\ memory_plugin /\ Len(lastPrep.before) >= TargetCount
  /\ lastPrep.built = 2
  /\ \E k \in 1..TargetCount : lastPrep.before[k].memory # "none"

(***************************************************************************)
(* C20: a Standard Prepare on a pool of fewer than target_count workers    *)
(* constructs exactly the missing workers, appends them at the indices     *)
(* len(pool)..target_count-1 bound to the Standard profiles of these       *)
(* indices, and leaves the workers it found under their identities at      *)
(* their indices.                                                          *)
(***************************************************************************)
C20_FillAppendsMissing ==
  (StandardPrepared /\ Len(lastPrep.before) < TargetCount) =>
    /\ lastPrep.built = TargetCount - Len(lastPrep.before)
    /\ Len(research_agents) = TargetCount
    /\ lastPrep.agents = research_agents
    /\ \A k \in 1..TargetCount :
         IF k <= Len(lastPrep.before)
           THEN research_agents[k] = lastPrep.before[k]
           ELSE /\ research_agents[k].id \notin Range(Ids(lastPrep.before))
                /\ \A j \in 1..TargetCount :
                     j # k => research_agents[j].id # research_agents[k].id
                /\ BoundToProfile(research_agents[k],
                                  GetTemperatureConfigs(cfg, FALSE)[k])

\* a Standard Prepare found two workers and appended the third
C20_Witness ==
  /\ StandardPrepared
  /\ Len(lastPrep.before) = 2
  /\ lastPrep.built = 1
  /\ research_agents[3].name = <<"RESEARCHER_", "3">>

(***************************************************************************)
(* C21: after any sequence of constructions (the initial pool, a Variation *)
(* recreation, a Standard repair or fill) all workers of the pool hold the *)
(* same search plugin instance and the same memory plugin instance.        *)
(***************************************************************************)
C21_SharedCapabilitySet ==
  \A j, k \in DOMAIN research_agents :
    /\ research_agents[j].search = research_agents[k].search
    /\ research_agents[j].memory = research_agents[k].memory

(***************************************************************************)
(* Runs whose turns answer at once: get_response raises or returns a       *)
(* response without a thread.  Preparation is as in every run.             *)
(***************************************************************************)
NextPool ==
  \/ \E r \in 1..slots, q \in Queries, v \in BOOLEAN, c \in Callers,
        f \in 0..TargetCount : StartRun(r, q, v, c, f)
  \/ \E r \in 1..slots, i \in Tasks, o \in {OutRaise, OutContent} :
        AgentResponds(r, i, o)
  \/ \E r \in 1..slots : FinishRun(r)
  \/ \E r \in 1..slots : Collect(r)

SpecPool == Init /\ [][NextPool]_vars

(***************************************************************************)
(* C22: a batch has exactly one task per prepared worker: every worker is  *)
(* invoked once, with the query as its messages; a task has a result       *)
(* exactly when it has completed, and when the call returns there is one   *)
(* result per worker, whether its turn failed or not.                      *)
(***************************************************************************)
C22_OneTaskPerWorker ==
  \A r \in Slots :
    FannedOut(r) =>
      LET n == Len(agents_to_use[r])
      IN /\ DOMAIN call[r].turns = 1..n
         /\ DOMAIN tpc[r] = 1..n
         /\ DOMAIN results[r] = 1..n
         /\ \A i \in 1..n :
              /\ call[r].turns[i].agent = agents_to_use[r][i].id
              /\ call[r].turns[i].messages = call[r].query
              /\ tpc[r][i] = "done" <=> results[r][i] # NoResult
         /\ rpc[r] = "returned" => \A i \in 1..n : results[r][i] # NoResult

\* a call returned after a batch in which one worker failed and two did not
C22_Witness ==
  \E r \in Slots :
    /\ rpc[r] = "returned" /\ FannedOut(r)
    /\ Len(agents_to_use[r]) = TargetCount
    /\ TurnFailed(r, 1) /\ ~TurnFailed(r, 2) /\ ~TurnFailed(r, 3)

(***************************************************************************)
(* C24: the temperature is given with the invocation: in a Variation run   *)
(* the task of worker i invokes it with the temperature of Variation       *)
(* profile i, whatever the worker was constructed with; in a Standard run  *)
(* every worker is invoked without a temperature.                          *)
(***************************************************************************)
C24_TemperaturePerInvocation ==
  \A r \in Slots :
    FannedOut(r) =>
      \A i \in DOMAIN call[r].turns :
        call[r].turns[i].arguments.temperature
          = (IF call[r].variation
               THEN GetProjectTemperatureConfigs(cfg)[i].temp
               ELSE NoTemp)

\* a Variation run on workers built without a temperature
C24_Witness ==
  \E r \in Slots :
    /\ FannedOut(r) /\ call[r].variation
    /\ agents_to_use[r][2].temp = NoTemp
    /\ call[r].turns[2].arguments.temperature = 60000

(***************************************************************************)
(* C23: a call of _prepare_agents that returns, in either mode and for any *)
(* list it was given, returns exactly target_count workers, and the worker *)
(* at position i of what it returns is the worker at index i of the pool;  *)
(* the run keeps that many workers: its batch has target_count tasks and   *)
(* results, and its report target_count sections.                          *)
(***************************************************************************)
C23_PrepareReturnsTargetCount ==
  /\ (lastPrep.called /\ lastPrep.ok) =>
        /\ Len(lastPrep.agents) = TargetCount
        /\ Len(research_agents) >= TargetCount
        /\ \A i \in 1..TargetCount : lastPrep.agents[i] = research_agents[i]
  /\ \A r \in Slots :
        (rpc[r] # "idle" /\ call[r].prepErr = NoErr) =>
          /\ Len(agents_to_use[r]) = TargetCount
          /\ FannedOut(r) => /\ Len(call[r].turns) = TargetCount
                             /\ Len(results[r]) = TargetCount
          /\ Reported(r) => Len(SectionHeads(output[r].parts)) = TargetCount

\* a report of a run whose Prepare was given four workers and rebuilt them
C23_Witness ==
  \E r \in Slots :
    /\ Reported(r) /\ call[r].variation
    /\ lastPrep.ok /\ Len(lastPrep.before) = TargetCount + 1
    /\ lastPrep.built = TargetCount
    /\ agents_to_use[r] = lastPrep.agents

(***************************************************************************)
(* C28: while the pool holds exactly target_count workers and every one    *)
(* of them has the memory plugin, or the caller has no memory plugin, no   *)
(* step of any run in either mode constructs a worker or changes the pool: *)
(* the same workers stay at the same indices.                              *)
(***************************************************************************)
C28_FullPoolConstructsNothing ==
  [][ ( /\ Len(research_agents) = TargetCount
        /\ memory_plugin =>
             \A k \in DOMAIN research_agents : HasMemoryPlugin(research_agents[k]) )
      => ( /\ research_agents' = research_agents
           /\ nextId' = nextId ) ]_vars

\* the report of a second Variation call on the pool the lead agent built
C28_Witness ==
  \E r \in Slots :
    /\ Reported(r) /\ call[r].variation
    /\ lastPrep.repeat
    /\ research_agents = CreateInitialResearchAgents(memory_plugin)
    /\ lastPrep.before = research_agents
    /\ lastPrep.built = 0
    /\ nextId = TargetCount + 1

(***************************************************************************)
(* C30: after a call of _prepare_agents that raised and left the pool with *)
(* fewer than target_count workers, the next call, in either mode, in      *)
(* which no construction fails returns exactly target_count workers.       *)
(***************************************************************************)
C30_PrepareRecovers ==
  [][ \A r \in Slots :
        ( /\ rpc[r] = "idle" /\ rpc'[r] # "idle"
          /\ lastPrep.called /\ ~lastPrep.ok
          /\ Len(research_agents) < TargetCount
          /\ call'[r].prepErr # ErrConstruct )
        => ( /\ lastPrep'.ok
             /\ Len(lastPrep'.agents) = TargetCount ) ]_vars

\* the turn's text is the placeholder of its worker
IsPlaceholder(text, agent) == text = <<"No content generated by ">> \o agent.name

(***************************************************************************)
(* C25: when reading the messages of the thread raises, the turn returns   *)
(* "No content generated by <worker name>" as its text: the error is not   *)
(* raised and the text is not an error text.                               *)
(***************************************************************************)
C25_ExtractionErrorGivesPlaceholder ==
  (extracted.worker # 0 /\ trace.thread /\ trace.readRaises) =>
    /\ ~extracted.result.exc
    /\ IsPlaceholder(extracted.result.text, research_agents[extracted.worker])

\* an item with its arguments and its result cut to the preview length
ClipItem(item) ==
  [item EXCEPT !.arguments = Take(@, ArgumentsPreview),
               !.result = Take(@, ArgumentsPreview)]

\* a response with every item of every message cut
Clip(response) ==
  [response EXCEPT !.messages =
     [k \in DOMAIN @ |->
        [@[k] EXCEPT !.items = [j \in DOMAIN @ |-> ClipItem(@[j])]]]]

(***************************************************************************)
(* C26: the text a turn returns for a thread does not grow with the length *)
(* of the arguments or results of its tool items: it is as long as the     *)
(* text for the same thread with every argument and every result cut to    *)
(* the preview length.                                                     *)
(***************************************************************************)
C26_ToolTextBounded ==
  (extracted.worker # 0 /\ trace.thread /\ ~trace.readRaises) =>
    Len(extracted.result.text)
      = Len(RunSingleAgentWithThread(research_agents[extracted.worker],
                                     Clip(trace)).text)

(***************************************************************************)
(* Calls of the lead agent on its own pool, one at a time, under the       *)
(* scheduling of the event loop: a task whose get_response or whose read   *)
(* of the thread can complete does complete, and a call whose gather can   *)
(* return goes on to the synthesis.                                        *)
(***************************************************************************)
InitLive ==
  /\ memory_plugin = TRUE
  /\ cfg \in ConfigStates
  /\ research_agents = CreateInitialResearchAgents(memory_plugin)
  /\ nextId = Len(research_agents) + 1
  /\ slots = 1
  /\ InitRuns
  /\ InitCalls

NextLive ==
  \/ \E r \in 1..slots, q \in Queries, v \in BOOLEAN, c \in Callers :
        StartRun(r, q, v, c, 0)
  \/ \E r \in 1..slots, i \in Tasks, o \in InvokeOutcomes : AgentResponds(r, i, o)
  \/ \E r \in 1..slots, i \in Tasks, o \in ThreadOutcomes : ThreadRead(r, i, o)
  \/ \E r \in 1..slots : FinishRun(r)
  \/ \E r \in 1..slots : Collect(r)

Fairness ==
  \A r \in Slots :
    /\ \A i \in Tasks :
         /\ WF_vars(\E o \in InvokeOutcomes : AgentResponds(r, i, o))
         /\ WF_vars(\E o \in ThreadOutcomes : ThreadRead(r, i, o))
    /\ WF_vars(FinishRun(r))

SpecLive == InitLive /\ [][NextLive]_vars /\ Fairness

(***************************************************************************)
(* C27: a call whose preparation succeeded and whose tasks were launched   *)
(* eventually returns a report, in whatever order its tasks complete.      *)
(***************************************************************************)
C27_RunEventuallyReports ==
  \A r \in Slots : (rpc[r] = "running") ~> Reported(r)

(***************************************************************************)
(* C29: a batch works on the list its own Prepare returned.  While a call  *)
(* is running, no step, of this call or of an overlapping one, changes     *)
(* the workers it invokes, the number of its results or a result it has;   *)
(* a task that completes stores the text of the turn of its own worker,    *)
(* and the report has one section per worker of that list, in index        *)
(* order, whatever the pool holds by then.                                 *)
(***************************************************************************)
C29_BatchWorksOnSnapshot ==
  [][ \A r \in Slots :
        (rpc[r] = "running" /\ FannedOut(r)) =>
          /\ agents_to_use'[r] = agents_to_use[r]
          /\ call'[r].turns = call[r].turns
          /\ DOMAIN results'[r] = DOMAIN agents_to_use[r]
          /\ \A i \in DOMAIN results[r] :
               /\ results[r][i] # NoResult => results'[r][i] = results[r][i]
               /\ (results[r][i] = NoResult /\ results'[r][i] # NoResult) =>
                    results'[r][i]
                      = RunSingleAgentWithThread(agents_to_use[r][i], resp'[r][i])
          /\ Reported(r)' =>
               /\ Len(SectionHeads(output'[r].parts)) = Len(agents_to_use[r])
               /\ \A k \in DOMAIN agents_to_use[r] :
                    /\ SectionHeader(output'[r].parts, k)
                         = IndexHeader(cfg, k, call[r].variation)
                    /\ SectionBody(output'[r].parts, k, call[r].variation)
                         = results[r][k].text
    ]_vars

\* a batch with a task in flight and a completed task named after its own
\* worker, whose workers a later Prepare of an overlapping call has
\* discarded from the pool
C29_Witness ==
  \E r \in Slots, s \in Slots :
    /\ r # s
    /\ InFlight(r) /\ rpc[s] = "running"
    /\ lastPrep.ok /\ lastPrep.built = TargetCount
    /\ lastPrep.agents = agents_to_use[s]
    /\ Take(lastPrep.before, TargetCount) = agents_to_use[r]
    /\ Range(Ids(agents_to_use[r])) \cap Range(Ids(research_agents)) = {}
    /\ \E i \in DOMAIN tpc[r] :
         /\ tpc[r][i] = "done" /\ resp[r][i].thread
         /\ IsPlaceholder(results[r][i].text, agents_to_use[r][i])

====
